---- MODULE Spec2Model ----
(***************************************************************************)
(* Model of the workflow controller of src/App.tsx (component App): the    *)
(* React state of the component, the engine handle kept in workerRef, the  *)
(* object URLs it creates and revokes, and the asynchronous continuations  *)
(* of initializeWorker, processImage and handlePaste.                      *)
(*                                                                         *)
(* Every handler runs to its next await as one action (the component runs  *)
(* on one thread); each await is a separate action that settles the        *)
(* awaited promise by resolving or rejecting it.  A handler started from   *)
(* the user interface reads the state of the current render; the           *)
(* continuation of handlePaste keeps the processImage closure, and so the  *)
(* value of image, of the render in which the paste button was clicked.    *)
(***************************************************************************)
EXTENDS Naturals, FiniteSets, Bags

VARIABLES
    lifecycle,      \* "created", "mounted" or "unmounted"
    image,          \* useState image: NoImage or an object URL
    text,           \* useState text
    error,          \* useState error: NoError or a message
    stage,          \* useState stage
    progress,       \* useState progress: [status, progress]
    workerReady,    \* useState workerReady
    workerRef,      \* workerRef.current: NoWorker or TheWorker
    initPc,         \* the await at which initializeWorker is suspended
    workerCreated,  \* createWorker has resolved with a worker
    workerTerminated, \* terminate() has been called on the worker
    nextUrl,        \* number of object URLs created so far
    live,           \* object URLs created and not yet revoked
    urlPayload,     \* the payload each object URL was created from
    recognizing,    \* recognize calls in flight, one record per call
    pastes,         \* bag of suspended handlePaste calls: [pc, image]
    dialogOpen,     \* the native file picker of the hidden input is open
    clipboardRead   \* navigator.clipboard?.read is available

vars == <<lifecycle, image, text, error, stage, progress, workerReady,
          workerRef, initPc, workerCreated, workerTerminated, nextUrl, live,
          urlPayload, recognizing, pastes, dialogOpen, clipboardRead>>

\* Bounds of the model.
MaxUrls == 2
MaxPastes == 2

\* Values.
NoImage == 0
NoError == "null"
NoWorker == "null"
TheWorker == "worker"
NoPayload == "none"
Payloads == {"photo.png", "scan.png"}
Texts == {"", "Hallo Welt"}
Urls == 1..MaxUrls

ErrInit == "Tesseract.js konnte nicht initialisiert werden."
ErrRecognize == "Fehler bei der Texterkennung."
ErrUnsupported == "Die Zwischenablage-API wird nicht unterstuetzt."
ErrNoImage == "Kein Bild in der Zwischenablage gefunden."
ErrDenied == "Zugriff auf die Zwischenablage wurde verweigert."
ErrPaste == "Fehler beim Einfuegen aus der Zwischenablage."

ZeroProgress == [status |-> "", progress |-> 0]
LoggerMessages == {[status |-> "loading language traineddata", progress |-> 1],
                   [status |-> "recognizing text", progress |-> 0]}

\* The variables that hold what the component shows.
view == <<stage, text, error, image, progress>>

\* ---- rendering (derived from the state of the current render) ----

isProcessing == stage = "initializing" \/ stage = "recognizing"

ControlsRendered == stage # "done" /\ text = ""

ButtonsEnabled == ControlsRendered /\ workerReady /\ ~isProcessing

ResetRendered == text # ""

\* ---- engine jobs ----

InitAwaits == {"createWorker", "loadLanguage", "initialize"}

InitPending == initPc \in InitAwaits

PastePending == pastes # EmptyBag

\* ---- state after construction ----

Init ==
    /\ lifecycle = "created"
    /\ image = NoImage
    /\ text = ""
    /\ error = NoError
    /\ stage = "idle"
    /\ progress = ZeroProgress
    /\ workerReady = FALSE
    /\ workerRef = NoWorker
    /\ initPc = "none"
    /\ workerCreated = FALSE
    /\ workerTerminated = FALSE
    /\ nextUrl = 0
    /\ live = {}
    /\ urlPayload = [u \in Urls |-> NoPayload]
    /\ recognizing = {}
    /\ pastes = EmptyBag
    /\ dialogOpen = FALSE
    /\ clipboardRead \in BOOLEAN

\* ---- useEffect: initializeWorker and cleanup ----

\* The effect runs on mount: initializeWorker sets the stage and suspends at
\* createWorker.
Mount ==
    /\ lifecycle = "created"
    /\ lifecycle' = "mounted"
    /\ stage' = "initializing"
    /\ initPc' = "createWorker"
    /\ UNCHANGED <<image, text, error, progress, workerReady, workerRef,
                   workerCreated, workerTerminated, nextUrl, live, urlPayload,
                   recognizing, pastes, dialogOpen, clipboardRead>>

\* The awaited promise of initializeWorker resolves.
InitAwaitResolve ==
    /\ InitPending
    /\ \/ /\ initPc = "createWorker"
          /\ workerCreated' = TRUE
          /\ initPc' = "loadLanguage"
          /\ UNCHANGED <<workerRef, workerReady, stage>>
       \/ /\ initPc = "loadLanguage"
          /\ initPc' = "initialize"
          /\ UNCHANGED <<workerCreated, workerRef, workerReady, stage>>
       \/ /\ initPc = "initialize"
          /\ workerRef' = TheWorker
          /\ workerReady' = TRUE
          /\ stage' = "idle"
          /\ initPc' = "done"
          /\ UNCHANGED workerCreated
    /\ UNCHANGED <<lifecycle, image, text, error, progress, workerTerminated,
                   nextUrl, live, urlPayload, recognizing, pastes, dialogOpen,
                   clipboardRead>>

\* The catch block of initializeWorker without its setStage('idle').
InitAwaitReject_KeepsStage ==
    /\ InitPending
    /\ error' = ErrInit
    /\ initPc' = "failed"
    /\ UNCHANGED <<lifecycle, image, text, progress, workerReady, workerRef,
                   workerCreated, workerTerminated, nextUrl, live, urlPayload,
                   recognizing, pastes, dialogOpen, clipboardRead, stage>>

\* The awaited promise of initializeWorker rejects: the catch block.
InitAwaitReject ==
    /\ InitPending
    /\ error' = ErrInit
    /\ stage' = "idle"
    /\ initPc' = "failed"
    /\ UNCHANGED <<lifecycle, image, text, progress, workerReady, workerRef,
                   workerCreated, workerTerminated, nextUrl, live, urlPayload,
                   recognizing, pastes, dialogOpen, clipboardRead>>

\* The cleanup of the effect: workerRef.current?.terminate(), then null.
Unmount ==
    /\ lifecycle = "mounted"
    /\ lifecycle' = "unmounted"
    /\ workerTerminated' = (workerTerminated \/ workerRef # NoWorker)
    /\ workerRef' = NoWorker
    /\ dialogOpen' = FALSE
    /\ UNCHANGED <<image, text, error, stage, progress, workerReady, initPc,
                   workerCreated, nextUrl, live, urlPayload, recognizing,
                   pastes, clipboardRead>>

\* ---- updateProgress ----

\* The logger of the worker reports while a job of the engine is pending.
UpdateProgress(m) ==
    /\ InitPending \/ recognizing # {}
    /\ progress' = [status |-> m.status, progress |-> m.progress]
    /\ UNCHANGED <<lifecycle, image, text, error, stage, workerReady,
                   workerRef, initPc, workerCreated, workerTerminated, nextUrl,
                   live, urlPayload, recognizing, pastes, dialogOpen,
                   clipboardRead>>

\* ---- processImage ----

\* processImage without its first line, the test of workerRef.current.
ProcessImage_NoWorkerTest(imageFile, closureImage) ==
    /\ error' = NoError
    /\ text' = ""
    /\ stage' = "recognizing"
    /\ nextUrl' = nextUrl + 1
    /\ live' = (live \ {closureImage}) \cup {nextUrl + 1}
    /\ urlPayload' = [u \in Urls |-> IF u = nextUrl + 1 THEN imageFile
                                     ELSE urlPayload[u]]
    /\ image' = nextUrl + 1
    /\ recognizing' = recognizing \cup
            {[url |-> nextUrl + 1, payload |-> imageFile]}

\* The part of processImage up to its await, called with the payload
\* imageFile from a closure whose render had image = closureImage.
ProcessImage(imageFile, closureImage) ==
    IF workerRef = NoWorker
    THEN UNCHANGED <<error, text, stage, live, nextUrl, urlPayload, image,
                     recognizing>>
    ELSE /\ error' = NoError
         /\ text' = ""
         /\ stage' = "recognizing"
         /\ nextUrl' = nextUrl + 1
         /\ live' = (live \ {closureImage}) \cup {nextUrl + 1}
         /\ urlPayload' = [urlPayload EXCEPT ![nextUrl + 1] = imageFile]
         /\ image' = nextUrl + 1
         /\ recognizing' = recognizing \cup
                {[url |-> nextUrl + 1, payload |-> imageFile]}

\* processImage cannot create an object URL beyond the bound of the model.
CanProcess == workerRef = NoWorker \/ nextUrl < MaxUrls

\* recognize resolves with {data: {text: t}}: the rest of the try block.
\* The result view replaces the acquisition controls, and with them the
\* hidden file input.
RecognizeResolve(c, t) ==
    /\ c \in recognizing
    /\ recognizing' = recognizing \ {c}
    /\ text' = t
    /\ stage' = "done"
    /\ dialogOpen' = FALSE
    /\ UNCHANGED <<lifecycle, image, error, progress, workerReady, workerRef,
                   initPc, workerCreated, workerTerminated, nextUrl, live,
                   urlPayload, pastes, clipboardRead>>

\* The catch block of processImage without its setStage('idle').
RecognizeReject_KeepsStage(c) ==
    /\ c \in recognizing
    /\ recognizing' = recognizing \ {c}
    /\ error' = ErrRecognize
    /\ UNCHANGED <<lifecycle, image, text, progress, workerReady, workerRef,
                   initPc, workerCreated, workerTerminated, nextUrl, live,
                   urlPayload, pastes, dialogOpen, clipboardRead, stage>>

\* recognize rejects: the catch block of processImage.
RecognizeReject(c) ==
    /\ c \in recognizing
    /\ recognizing' = recognizing \ {c}
    /\ error' = ErrRecognize
    /\ stage' = "idle"
    /\ UNCHANGED <<lifecycle, image, text, progress, workerReady, workerRef,
                   initPc, workerCreated, workerTerminated, nextUrl, live,
                   urlPayload, pastes, dialogOpen, clipboardRead>>

\* ---- file upload and camera capture ----

\* One of the two buttons opens the file picker of the hidden input.
TriggerFileUpload ==
    /\ lifecycle = "mounted"
    /\ ButtonsEnabled
    /\ ~dialogOpen
    /\ dialogOpen' = TRUE
    /\ UNCHANGED <<lifecycle, image, text, error, stage, progress,
                   workerReady, workerRef, initPc, workerCreated,
                   workerTerminated, nextUrl, live, urlPayload, recognizing,
                   pastes, clipboardRead>>

\* The user picks a file: onChange of the input, with the handlers of the
\* current render.
HandleFileSelect(file) ==
    /\ lifecycle = "mounted"
    /\ dialogOpen
    /\ ControlsRendered
    /\ CanProcess
    /\ dialogOpen' = FALSE
    /\ ProcessImage(file, image)
    /\ UNCHANGED <<lifecycle, progress, workerReady, workerRef, initPc,
                   workerCreated, workerTerminated, pastes, clipboardRead>>

\* The user closes the file picker without a file: no change event.
CancelFileSelect ==
    /\ lifecycle = "mounted"
    /\ dialogOpen
    /\ dialogOpen' = FALSE
    /\ UNCHANGED <<lifecycle, image, text, error, stage, progress,
                   workerReady, workerRef, initPc, workerCreated,
                   workerTerminated, nextUrl, live, urlPayload, recognizing,
                   pastes, clipboardRead>>

\* ---- clipboard paste ----

\* The paste button: handlePaste up to its first await.  The button cannot
\* be clicked while the (modal) file picker is open.
HandlePaste ==
    /\ lifecycle = "mounted"
    /\ ButtonsEnabled
    /\ ~dialogOpen
    /\ IF ~clipboardRead
       THEN /\ error' = ErrUnsupported
            /\ UNCHANGED pastes
       ELSE /\ BagCardinality(pastes) < MaxPastes
            /\ pastes' = pastes (+) SetToBag({[pc |-> "read", image |-> image]})
            /\ UNCHANGED error
    /\ UNCHANGED <<lifecycle, image, text, stage, progress, workerReady,
                   workerRef, initPc, workerCreated, workerTerminated, nextUrl,
                   live, urlPayload, recognizing, dialogOpen, clipboardRead>>

\* navigator.clipboard.read() resolves in the call p; hasImage tells whether
\* an item has a type that starts with "image/".
PasteReadResolve(p, hasImage) ==
    /\ BagIn(p, pastes)
    /\ p.pc = "read"
    /\ IF hasImage
       THEN /\ pastes' = (pastes (-) SetToBag({p})) (+)
                             SetToBag({[p EXCEPT !.pc = "getType"]})
            /\ UNCHANGED error
       ELSE /\ pastes' = pastes (-) SetToBag({p})
            /\ error' = ErrNoImage
    /\ UNCHANGED <<lifecycle, image, text, stage, progress, workerReady,
                   workerRef, initPc, workerCreated, workerTerminated, nextUrl,
                   live, urlPayload, recognizing, dialogOpen, clipboardRead>>

\* item.getType(imageType) resolves with the blob: await processImage(blob),
\* with the processImage of the render of the click.
PasteGetTypeResolve(p, blob) ==
    /\ BagIn(p, pastes)
    /\ p.pc = "getType"
    /\ CanProcess
    /\ pastes' = pastes (-) SetToBag({p})
    /\ ProcessImage(blob, p.image)
    /\ UNCHANGED <<lifecycle, progress, workerReady, workerRef, initPc,
                   workerCreated, workerTerminated, dialogOpen, clipboardRead>>

\* clipboard.read() or getType() rejects: the catch block of handlePaste.
PasteReject(p, notAllowed) ==
    /\ BagIn(p, pastes)
    /\ pastes' = pastes (-) SetToBag({p})
    /\ error' = IF notAllowed THEN ErrDenied ELSE ErrPaste
    /\ UNCHANGED <<lifecycle, image, text, stage, progress, workerReady,
                   workerRef, initPc, workerCreated, workerTerminated, nextUrl,
                   live, urlPayload, recognizing, dialogOpen, clipboardRead>>

\* ---- reset ----

\* The reset button, rendered with the result view.
HandleReset ==
    /\ lifecycle = "mounted"
    /\ ResetRendered
    /\ live' = live \ {image}
    /\ image' = NoImage
    /\ text' = ""
    /\ error' = NoError
    /\ stage' = "idle"
    /\ progress' = ZeroProgress
    /\ UNCHANGED <<lifecycle, workerReady, workerRef, initPc, workerCreated,
                   workerTerminated, nextUrl, urlPayload, recognizing, pastes,
                   dialogOpen, clipboardRead>>

\* ---- specification ----

Next ==
    \/ Mount
    \/ InitAwaitResolve
    \/ InitAwaitReject
    \/ Unmount
    \/ \E m \in LoggerMessages : UpdateProgress(m)
    \/ \E c \in recognizing, t \in Texts : RecognizeResolve(c, t)
    \/ \E c \in recognizing : RecognizeReject(c)
    \/ TriggerFileUpload
    \/ \E file \in Payloads : HandleFileSelect(file)
    \/ CancelFileSelect
    \/ HandlePaste
    \/ \E p \in BagToSet(pastes), hasImage \in BOOLEAN :
            PasteReadResolve(p, hasImage)
    \/ \E p \in BagToSet(pastes), blob \in Payloads :
            PasteGetTypeResolve(p, blob)
    \/ \E p \in BagToSet(pastes), notAllowed \in BOOLEAN :
            PasteReject(p, notAllowed)
    \/ HandleReset

Spec == Init /\ [][Next]_vars

\* An awaited call of the engine settles while the component is mounted.
InitSettles ==
    lifecycle = "mounted" /\ (InitAwaitResolve \/ InitAwaitReject)

RecognizeSettles ==
    /\ lifecycle = "mounted"
    /\ \E c \in recognizing :
            \/ \E t \in Texts : RecognizeResolve(c, t)
            \/ RecognizeReject(c)

\* The component under an engine whose calls all settle eventually, as long
\* as the component is mounted.
FairSpec ==
    Init /\ [][Next]_vars /\ WF_vars(InitSettles) /\ WF_vars(RecognizeSettles)

TypeOK ==
    /\ lifecycle \in {"created", "mounted", "unmounted"}
    /\ image \in {NoImage} \cup Urls
    /\ text \in Texts
    /\ stage \in {"idle", "initializing", "recognizing", "done"}
    /\ progress \in {ZeroProgress} \cup LoggerMessages
    /\ workerReady \in BOOLEAN
    /\ workerRef \in {NoWorker, TheWorker}
    /\ initPc \in {"none", "done", "failed"} \cup InitAwaits
    /\ nextUrl \in 0..MaxUrls
    /\ live \subseteq Urls
    /\ recognizing \subseteq [url : Urls, payload : Payloads]
    /\ dialogOpen \in BOOLEAN
    /\ IsABag(pastes)
    /\ BagCardinality(pastes) <= MaxPastes

\* ---- properties ----

\* No asynchronous operation of the component is pending.
Settled == ~InitPending /\ recognizing = {} /\ pastes = EmptyBag

\* A step that calls processImage: from handleFileSelect or from the
\* continuation of handlePaste.
ProcessImageCalled ==
    \/ \E file \in Payloads : HandleFileSelect(file)
    \/ \E p \in BagToSet(pastes), blob \in Payloads :
            PasteGetTypeResolve(p, blob)

\* The engine cannot be used: no handle is held or it was never marked ready.
EngineUnusable == workerRef = NoWorker \/ ~workerReady

\* C1: at most one recognize call is in flight at any time, for every
\* interleaving of upload, capture and paste.
C1_AtMostOneRecognizeInFlight == Cardinality(recognizing) <= 1

\* C2: in every reachable state a non-empty text implies stage done.
C2_TextImpliesDone == text # "" => stage = "done"

\* C3: in every reachable state a set error implies stage idle and an empty
\* text.
C3_ErrorImpliesIdleNoText == error # NoError => (stage = "idle" /\ text = "")

\* C4: in every reachable state at most one object URL created by
\* processImage is alive.
C4_AtMostOneLiveHandle == Cardinality(live) <= 1

\* C5: once the component is unmounted and every pending asynchronous
\* operation has settled, every worker that was created has been terminated.
C5_UnmountTerminatesEngine ==
    (lifecycle = "unmounted" /\ Settled) =>
        (workerCreated => workerTerminated)

\* C6: after unmount no object URL created by processImage is alive.
C6_UnmountReleasesHandle == lifecycle = "unmounted" => live = {}

C8_ResetClearsEverything ==
    [][((stage = "done" \/ (stage = "idle" /\ error # NoError))
            /\ HandleReset) =>
        (/\ stage' = "idle"
         /\ text' = ""
         /\ error' = NoError
         /\ progress' = ZeroProgress
         /\ image' = NoImage
         /\ image \notin live'
         /\ live' = {})]_vars

\* C9: a call of processImage either ends in stage recognizing with a
\* freshly created object URL as the preview, or changes no state variable;
\* it changes nothing exactly when the engine is not usable or a recognition
\* is already in progress.
C9_SubmitFreshOrNoChange ==
    [][ProcessImageCalled =>
        LET NoChange == UNCHANGED <<stage, text, error, image, progress,
                                    workerRef>>
            Fresh == /\ stage' = "recognizing"
                     /\ image' \in live' \ (1..nextUrl)
        IN  /\ Fresh \/ NoChange
            /\ NoChange <=> (EngineUnusable \/ stage = "recognizing")]_vars

\* C10: while a recognize call of an accepted submission is in flight,
\* error is null and text is empty.
C10_ClearedUntilSettled ==
    recognizing # {} => (error = NoError /\ text = "")

\* C11: a processImage call that starts a recognition leaves progress at
\* {status: '', progress: 0}, with nothing left over from initialization or
\* from an earlier recognition.
C11_ProgressResetOnSubmit ==
    [][(ProcessImageCalled /\ recognizing' # recognizing) =>
            progress' = ZeroProgress]_vars

\* C12: once initialization has rejected, stage is idle with the
\* initialization error set, the engine is unusable (workerReady false, no
\* handle held), no acquisition control is enabled, stage never becomes
\* recognizing and recognize is never called.
C12_InitFailureDisablesEngine ==
    initPc = "failed" =>
        /\ stage = "idle"
        /\ error = ErrInit
        /\ ~workerReady
        /\ workerRef = NoWorker
        /\ ~ButtonsEnabled
        /\ recognizing = {}
        /\ nextUrl = 0

\* Initialization has rejected after createWorker had produced a worker.
C12_Witness ==
    initPc = "failed" /\ workerCreated /\ lifecycle = "mounted"

\* A step that takes a failure path of handlePaste: the clipboard read API is
\* missing, the read resolves without an image item, or read or getType
\* rejects.
PasteFailed ==
    \/ HandlePaste /\ ~clipboardRead
    \/ \E p \in BagToSet(pastes) : PasteReadResolve(p, FALSE)
    \/ \E p \in BagToSet(pastes), notAllowed \in BOOLEAN :
            PasteReject(p, notAllowed)

\* A step that sets stage to recognizing: a processImage call that starts a
\* recognize call, or any change of stage to recognizing.
EntersRecognizing ==
    \/ ProcessImageCalled /\ recognizing' # recognizing
    \/ stage' = "recognizing" /\ stage # "recognizing"

\* C13: every failure path of handlePaste sets error, ends with stage idle
\* and starts no recognize call.
C13_PasteFailureSetsErrorAtIdle ==
    [][PasteFailed =>
        (/\ error' # NoError
         /\ stage' = "idle"
         /\ recognizing' = recognizing)]_vars

\* C14: when a recognize call rejects, stage becomes idle, the recognition
\* error is set, text is empty, and the object URL created for that attempt
\* is still the preview and still alive.
C14_RejectKeepsPreview ==
    [][\A c \in recognizing :
        RecognizeReject(c) =>
            (/\ stage' = "idle"
             /\ error' = ErrRecognize
             /\ text' = ""
             /\ image' = c.url
             /\ c.url \in live')]_vars

\* C15: when the recognize call of an accepted payload p resolves with text
\* t, stage becomes done, text is t, no error is set, and the preview is the
\* live object URL created from p.
C15_ResolveShowsResultOfPayload ==
    [][\A c \in recognizing, t \in Texts :
        RecognizeResolve(c, t) =>
            (/\ stage' = "done"
             /\ text' = t
             /\ error' = NoError
             /\ image' = c.url
             /\ image' \in live'
             /\ urlPayload'[image'] = c.payload)]_vars

\* C16: stage is set to recognizing only by a step that starts in stage idle
\* with the engine usable, never from initializing, recognizing or done.
C16_RecognizingOnlyFromIdle ==
    [][EntersRecognizing => (stage = "idle" /\ ~EngineUnusable)]_vars

\* C17: if every engine call settles and the component stays mounted, stage
\* initializing is eventually followed by idle, and stage recognizing is
\* eventually followed by done or idle.
C17_ProcessingEnds ==
    /\ (stage = "initializing") ~>
            (stage = "idle" \/ lifecycle = "unmounted")
    /\ (stage = "recognizing") ~>
            (stage \in {"done", "idle"} \/ lifecycle = "unmounted")

\* A recognition has been rejected back to idle in a mounted component.
C17_Witness ==
    /\ lifecycle = "mounted"
    /\ stage = "idle"
    /\ error = ErrRecognize
    /\ recognizing = {}

\* C18: in every state of the mounted component in which the engine is
\* usable and no asynchronous operation is pending, the acquisition buttons
\* are rendered and enabled or the reset button is rendered.
C18_NeverStuck ==
    (lifecycle = "mounted" /\ ~EngineUnusable /\ Settled) =>
        (ButtonsEnabled \/ ResetRendered)

\* C19: every step that starts a recognize call starts in a mounted
\* component whose initialization has completed successfully and whose
\* worker has not been terminated, in a stage other than initializing.
C19_RecognizeOnlyOnReadyEngine ==
    [][(recognizing' \ recognizing # {}) =>
        (/\ initPc = "done"
         /\ workerCreated
         /\ ~workerTerminated
         /\ lifecycle = "mounted"
         /\ stage # "initializing")]_vars

\* A recognize call is in flight in a mounted component.
C19_Witness == recognizing # {} /\ lifecycle = "mounted"

\* C20: in every state with stage done the preview is set to an object URL
\* that is still alive.
C20_DoneHasLivePreview ==
    stage = "done" => (image # NoImage /\ image \in live)

====
